---- MODULE Spec2Model ----
(***************************************************************************)
(* Model of docs/conf.py, the Sphinx configuration of the Strata           *)
(* TypeScript Tutor.  One load of the file is a straight-line program      *)
(* with one try/except block around the read of ../package.json.  The      *)
(* model follows the file statement by statement: the module search path,  *)
(* the configuration namespace, the manifest on disk, the file handle of   *)
(* the with-block and the pending exception are the state.                 *)
(***************************************************************************)
EXTENDS Naturals, Sequences, FiniteSets, TLC

VARIABLES
  pc,        \* position of the load in conf.py
  sys_path,  \* sys.path of the process, a sequence of absolute paths
  cwd,       \* working directory of the process, a sequence of components
  path0,     \* sys.path as it was before the first load (history)
  ns,        \* configuration namespace of the running load: name -> value
  prev,      \* namespace the previous load finished with (history)
  manifest,  \* state and content of ../package.json on disk
  handle,    \* file object f of the with-block: "none", "open", "closed"
  exc,       \* exception in flight, "none" when there is none
  doc,       \* value returned by json.load(f)
  fs_ops,    \* file-system calls made by the running load
  loads      \* number of loads started in this process

vars == <<pc, sys_path, cwd, path0, ns, prev, manifest, handle, exc, doc,
          fs_ops, loads>>

\* Number of times the file is loaded in one process.
MaxLoads == 2

-----------------------------------------------------------------------------
(* Python values.  Every value is a record of the same shape so that any   *)
(* two values can be compared: type is the Python type name, s the text    *)
(* of a str, n the number of an int or bool, elems the items of a list,    *)
(* members the (key, value) pairs of a dict in insertion order.            *)

Str(s) == [type |-> "str", s |-> s, n |-> 0, elems |-> <<>>, members |-> <<>>]
Int(n) == [type |-> "int", s |-> "", n |-> n, elems |-> <<>>, members |-> <<>>]
Bool(b) ==
  [type |-> "bool", s |-> "", n |-> IF b THEN 1 ELSE 0, elems |-> <<>>,
   members |-> <<>>]
None == [type |-> "NoneType", s |-> "", n |-> 0, elems |-> <<>>, members |-> <<>>]
List(e) == [type |-> "list", s |-> "", n |-> 0, elems |-> e, members |-> <<>>]
Dict(m) == [type |-> "dict", s |-> "", n |-> 0, elems |-> <<>>, members |-> m]
Tuple(e) == [type |-> "tuple", s |-> "", n |-> 0, elems |-> e, members |-> <<>>]

\* A name that no statement has assigned yet.
Unbound == [type |-> "unbound", s |-> "", n |-> 0, elems |-> <<>>, members |-> <<>>]

StrList(ss) == List([i \in 1..Len(ss) |-> Str(ss[i])])

-----------------------------------------------------------------------------
(* JSON documents, as the text of the manifest denotes them.  members      *)
(* keeps the pairs of an object in the order of the text, duplicates       *)
(* included.                                                               *)

JNull == [j |-> "null", s |-> "", n |-> 0, elems |-> <<>>, members |-> <<>>]
JTrue == [j |-> "true", s |-> "", n |-> 0, elems |-> <<>>, members |-> <<>>]
JString(s) == [j |-> "string", s |-> s, n |-> 0, elems |-> <<>>, members |-> <<>>]
JNumber(n) == [j |-> "number", s |-> "", n |-> n, elems |-> <<>>, members |-> <<>>]
JArray(e) == [j |-> "array", s |-> "", n |-> 0, elems |-> e, members |-> <<>>]
JObject(m) == [j |-> "object", s |-> "", n |-> 0, elems |-> <<>>, members |-> m]

\* dict[key] = value: a new key goes to the end, a known key keeps its place.
DictSet(m, key, value) ==
  IF \E i \in 1..Len(m) : m[i][1] = key
  THEN [i \in 1..Len(m) |-> IF m[i][1] = key THEN <<key, value>> ELSE m[i]]
  ELSE Append(m, <<key, value>>)

RECURSIVE FromJson(_)
RECURSIVE FromMembers(_, _)

\* Pairs of an object, fed to a dict one by one: the last duplicate wins.
FromMembers(m, acc) ==
  IF m = <<>> THEN acc
  ELSE FromMembers(Tail(m), DictSet(acc, Head(m)[1], FromJson(Head(m)[2])))

\* json.load: the Python value of a JSON document.
FromJson(j) ==
  CASE j.j = "null" -> None
    [] j.j = "true" -> Bool(TRUE)
    [] j.j = "string" -> Str(j.s)
    [] j.j = "number" -> Int(j.n)
    [] j.j = "array" -> List([i \in 1..Len(j.elems) |-> FromJson(j.elems[i])])
    [] j.j = "object" -> Dict(FromMembers(j.members, <<>>))

HasKey(d, key) == \E i \in 1..Len(d.members) : d.members[i][1] = key

\* dict.get(key, default)
DictGet(d, key, default) ==
  IF HasKey(d, key)
  THEN d.members[CHOOSE i \in 1..Len(d.members) : d.members[i][1] = key][2]
  ELSE default

-----------------------------------------------------------------------------
(* The manifest on disk.                                                   *)

ManifestStates == {"absent", "denied", "ioerror", "undecodable", "malformed", "json"}

File(state, d) == [state |-> state, doc |-> d]

Documents ==
  { JNull, JTrue, JNumber(3), JString("2.0.0"), JArray(<<>>),
    JArray(<<JString("version")>>),
    JObject(<<>>),
    JObject(<< <<"name", JString("typescript-tutor")>> >>),
    JObject(<< <<"version", JString("2.3.4")>> >>),
    JObject(<< <<"name", JString("typescript-tutor")>>,
               <<"version", JString("0.9.0")>> >>),
    JObject(<< <<"version", JString("1.0.0")>> >>),
    JObject(<< <<"version", JString("")>> >>),
    JObject(<< <<"version", JNull>> >>),
    JObject(<< <<"version", JNumber(7)>> >>),
    JObject(<< <<"version", JArray(<<JNumber(2), JNumber(3)>>)>> >>),
    JObject(<< <<"version", JObject(<< <<"major", JNumber(2)>> >>)>> >>),
    JObject(<< <<"version", JString("1.1.0")>>,
               <<"version", JString("1.2.0")>> >>) }

Manifests ==
  { File(s, JNull) : s \in ManifestStates \ {"json"} }
    \cup { File("json", d) : d \in Documents }

\* Exception raised by open() for a file in this state, "none" if it opens.
OpenError(state) ==
  CASE state = "absent" -> "FileNotFoundError"
    [] state = "denied" -> "PermissionError"
    [] OTHER -> "none"

\* Exception raised by json.load(f) while reading and decoding the file.
LoadError(state) ==
  CASE state = "ioerror" -> "OSError"
    [] state = "undecodable" -> "UnicodeDecodeError"
    [] state = "malformed" -> "JSONDecodeError"
    [] OTHER -> "none"

-----------------------------------------------------------------------------
(* Paths are sequences of components; a path of the search path is         *)
(* absolute, <<>> is the root directory.                                   *)

RECURSIVE Normalise(_, _)

\* posixpath.normpath of an absolute path: "." is dropped, ".." removes the
\* component before it and is dropped at the root.
Normalise(comps, acc) ==
  IF comps = <<>> THEN acc
  ELSE LET c == Head(comps) IN
       IF c = "." THEN Normalise(Tail(comps), acc)
       ELSE IF c /= ".." THEN Normalise(Tail(comps), Append(acc, c))
       ELSE IF acc /= <<>> THEN Normalise(Tail(comps), SubSeq(acc, 1, Len(acc) - 1))
       ELSE Normalise(Tail(comps), acc)

\* os.path.abspath of a relative path: joined to the working directory and
\* normalised.
Abspath(dir, rel) == Normalise(dir \o rel, <<>>)

\* The argument of os.path.abspath on line 8.
SourceDir == <<"..", "src">>

\* A search path that tests membership before it inserts.
PathInsertOnce(path, entry) ==
  IF \E i \in 1..Len(path) : path[i] = entry THEN path ELSE <<entry>> \o path

\* sys.path.insert(0, entry)
PathInsert(path, entry) == <<entry>> \o path

Cwds == { <<"repo", "docs">>, <<"docs">>, <<>> }

InitialPaths ==
  { <<>>,
    << <<"usr", "lib", "python3">> >>,
    << <<"repo", "src">>, <<"usr", "lib", "python3">> >>,
    << <<"usr", "lib", "python3">>, <<"src">>, <<"site-packages">> >> }

-----------------------------------------------------------------------------
(* The configuration namespace.                                            *)

Names ==
  { "project", "copyright", "author", "release", "extensions",
    "templates_path", "exclude_patterns", "source_suffix", "html_theme",
    "html_static_path", "html_title", "html_theme_options",
    "autodoc_default_options", "autodoc_typehints", "autodoc_class_signature",
    "autosummary_generate", "napoleon_google_docstring",
    "napoleon_numpy_docstring", "napoleon_include_init_with_doc",
    "napoleon_use_param", "napoleon_use_rtype", "intersphinx_mapping",
    "myst_enable_extensions", "myst_heading_anchors" }

EmptyNamespace == [name \in Names |-> Unbound]

RECURSIVE AssignAll(_, _)

\* A run of assignment statements name = value, executed in order.
AssignAll(n, stmts) ==
  IF stmts = <<>> THEN n
  ELSE AssignAll([n EXCEPT ![Head(stmts)[1]] = Head(stmts)[2]], Tail(stmts))

\* The manifest as the open() call names it, and the mode it is opened in.
ManifestPath == "../package.json"

OpenModeWrite == "w"

OpenMode == "r"

\* A lookup without its second argument.
GetDefaultNone == None

\* The default of the .get on line 19.
GetDefault == Str("1.0.0")

ExceptReleaseZero == Str("0.0.0")

\* The value assigned by the handler on line 21.
ExceptRelease == Str("1.0.0")

ExceptionClasses ==
  { "FileNotFoundError", "PermissionError", "OSError", "UnicodeDecodeError",
    "JSONDecodeError", "AttributeError" }

\* A handler for OSError only.
CatchesOSError(e) == e \in {"FileNotFoundError", "PermissionError", "OSError"}

\* except Exception: every exception class above derives from Exception.
Catches(e) == e \in ExceptionClasses

\* A file object that is left as it is when the block is left.
FileExitLeak(h) == h

\* __exit__ of the file object of the with-block.
FileExit(h) == "closed"

\* A lookup that treats a falsy value as a missing one.
VersionOrDefault(d) ==
  LET v == DictGet(d, "version", GetDefault) IN
  IF v \in {None, Str(""), Int(0), Bool(FALSE), List(<<>>), Dict(<<>>)}
  THEN GetDefault ELSE v

\* json.load(f).get("version", "1.0.0") applied to the loaded dict.
VersionOf(d) == DictGet(d, "version", GetDefault)

\* A title built from the release instead of the project.
HtmlTitleRelease(n) == Str(n["project"].s \o " " \o n["release"].s)

\* f"{project} Documentation"
HtmlTitle(n) == Str(n["project"].s \o " Documentation")

ExtensionsWithMermaid ==
  StrList(<< "sphinx.ext.autodoc", "sphinx.ext.autosummary",
             "sphinx.ext.napoleon", "sphinx.ext.viewcode",
             "sphinx.ext.intersphinx", "sphinx_autodoc_typehints",
             "myst_parser", "sphinxcontrib.mermaid" >>)

\* The extensions list of lines 25-37; the mermaid entry is a comment.
Extensions ==
  StrList(<< "sphinx.ext.autodoc", "sphinx.ext.autosummary",
             "sphinx.ext.napoleon", "sphinx.ext.viewcode",
             "sphinx.ext.intersphinx", "sphinx_autodoc_typehints",
             "myst_parser" >>)

HtmlThemeOptions ==
  Dict(<< <<"navigation_depth", Int(4)>>,
          <<"collapse_navigation", Bool(FALSE)>>,
          <<"sticky_navigation", Bool(TRUE)>>,
          <<"includehidden", Bool(TRUE)>>,
          <<"titles_only", Bool(FALSE)>> >>)

AutodocDefaultOptions ==
  Dict(<< <<"members", Bool(TRUE)>>,
          <<"member-order", Str("bysource")>>,
          <<"special-members", Str("__init__")>>,
          <<"undoc-members", Bool(TRUE)>>,
          <<"exclude-members", Str("__weakref__")>>,
          <<"show-inheritance", Bool(TRUE)>> >>)

-----------------------------------------------------------------------------
(* The load of conf.py.                                                    *)

Init ==
  /\ pc = "l8"
  /\ cwd \in Cwds
  /\ sys_path \in InitialPaths
  /\ path0 = sys_path
  /\ ns = EmptyNamespace
  /\ prev = EmptyNamespace
  /\ manifest \in Manifests
  /\ handle = "none"
  /\ exc = "none"
  /\ doc = Unbound
  /\ fs_ops = <<>>
  /\ loads = 1

\* line 8: sys.path.insert(0, os.path.abspath("../src"))
SysPathInsert ==
  /\ pc = "l8"
  /\ sys_path' = PathInsert(sys_path, Abspath(cwd, SourceDir))
  /\ pc' = "l11"
  /\ UNCHANGED <<cwd, path0, ns, prev, manifest, handle, exc, doc, fs_ops, loads>>

\* lines 11-13: project, copyright, author
ProjectInformation ==
  /\ pc = "l11"
  /\ ns' = AssignAll(ns, << <<"project", Str("Strata TypeScript Tutor")>>,
                            <<"copyright", Str("2025, Jon Bogaty")>>,
                            <<"author", Str("Jon Bogaty")>> >>)
  /\ pc' = "l17"
  /\ UNCHANGED <<sys_path, cwd, path0, prev, manifest, handle, exc, doc, fs_ops, loads>>

\* lines 16-17: the try block is entered and json is imported
ImportJson ==
  /\ pc = "l17"
  /\ pc' = "l18"
  /\ UNCHANGED <<sys_path, cwd, path0, ns, prev, manifest, handle, exc, doc, fs_ops, loads>>

\* line 18: with open("../package.json") as f
OpenManifest ==
  /\ pc = "l18"
  /\ fs_ops' = Append(fs_ops, [op |-> "open", path |-> ManifestPath, mode |-> OpenMode])
  /\ IF OpenError(manifest.state) = "none"
     THEN /\ handle' = "open"
          /\ pc' = "l19"
          /\ exc' = exc
     ELSE /\ exc' = OpenError(manifest.state)
          /\ pc' = "l20"
          /\ handle' = handle
  /\ UNCHANGED <<sys_path, cwd, path0, ns, prev, manifest, doc, loads>>

\* line 19, first call: json.load(f)
JsonLoad ==
  /\ pc = "l19"
  /\ fs_ops' = Append(fs_ops, [op |-> "read", path |-> ManifestPath, mode |-> OpenMode])
  /\ IF LoadError(manifest.state) = "none"
     THEN /\ doc' = FromJson(manifest.doc)
          /\ pc' = "l19_get"
          /\ exc' = exc
     ELSE /\ exc' = LoadError(manifest.state)
          /\ pc' = "with_exit"
          /\ doc' = doc
  /\ UNCHANGED <<sys_path, cwd, path0, ns, prev, manifest, handle, loads>>

\* line 19, second call and assignment: release = <doc>.get("version", "1.0.0");
\* only a dict has the attribute get.
GetVersion ==
  /\ pc = "l19_get"
  /\ IF doc.type = "dict"
     THEN /\ ns' = [ns EXCEPT !["release"] = VersionOf(doc)]
          /\ exc' = exc
     ELSE /\ exc' = "AttributeError"
          /\ ns' = ns
  /\ pc' = "with_exit"
  /\ UNCHANGED <<sys_path, cwd, path0, prev, manifest, handle, doc, fs_ops, loads>>

\* lines 18-19: the with-block is left, normally or by an exception
WithExit ==
  /\ pc = "with_exit"
  /\ handle' = FileExit(handle)
  /\ pc' = IF exc = "none" THEN "l25" ELSE "l20"
  /\ UNCHANGED <<sys_path, cwd, path0, ns, prev, manifest, exc, doc, fs_ops, loads>>

\* lines 20-21: except Exception: release = "1.0.0"; an exception the
\* clause does not match ends the load.
ExceptHandler ==
  /\ pc = "l20"
  /\ IF Catches(exc)
     THEN /\ ns' = [ns EXCEPT !["release"] = ExceptRelease]
          /\ exc' = "none"
          /\ pc' = "l25"
     ELSE /\ pc' = "failed"
          /\ UNCHANGED <<ns, exc>>
  /\ UNCHANGED <<sys_path, cwd, path0, prev, manifest, handle, doc, fs_ops, loads>>

\* lines 25-46: extensions, templates_path, exclude_patterns, source_suffix
GeneralConfiguration ==
  /\ pc = "l25"
  /\ ns' = AssignAll(ns,
       << <<"extensions", Extensions>>,
          <<"templates_path", StrList(<<"_templates">>)>>,
          <<"exclude_patterns", StrList(<<"_build", "Thumbs.db", ".DS_Store">>)>>,
          <<"source_suffix", Dict(<< <<".rst", Str("restructuredtext")>>,
                                     <<".md", Str("markdown")>> >>)>> >>)
  /\ pc' = "l50"
  /\ UNCHANGED <<sys_path, cwd, path0, prev, manifest, handle, exc, doc, fs_ops, loads>>

\* lines 50-60: html_theme, html_static_path, html_title, html_theme_options
HtmlOutput ==
  /\ pc = "l50"
  /\ ns' = AssignAll(ns,
       << <<"html_theme", Str("sphinx_rtd_theme")>>,
          <<"html_static_path", StrList(<<"_static">>)>>,
          <<"html_title", HtmlTitle(ns)>>,
          <<"html_theme_options", HtmlThemeOptions>> >>)
  /\ pc' = "l65"
  /\ UNCHANGED <<sys_path, cwd, path0, prev, manifest, handle, exc, doc, fs_ops, loads>>

\* lines 65-98: autodoc, autosummary, napoleon, intersphinx and myst settings
ExtensionConfiguration ==
  /\ pc = "l65"
  /\ ns' = AssignAll(ns,
       << <<"autodoc_default_options", AutodocDefaultOptions>>,
          <<"autodoc_typehints", Str("description")>>,
          <<"autodoc_class_signature", Str("separated")>>,
          <<"autosummary_generate", Bool(TRUE)>>,
          <<"napoleon_google_docstring", Bool(TRUE)>>,
          <<"napoleon_numpy_docstring", Bool(TRUE)>>,
          <<"napoleon_include_init_with_doc", Bool(TRUE)>>,
          <<"napoleon_use_param", Bool(TRUE)>>,
          <<"napoleon_use_rtype", Bool(TRUE)>>,
          <<"intersphinx_mapping",
            Dict(<< <<"python",
                      Tuple(<<Str("https://docs.python.org/3"), None>>)>> >>)>>,
          <<"myst_enable_extensions",
            StrList(<<"colon_fence", "deflist", "fieldlist", "tasklist">>)>>,
          <<"myst_heading_anchors", Int(3)>> >>)
  /\ pc' = "done"
  /\ UNCHANGED <<sys_path, cwd, path0, prev, manifest, handle, exc, doc, fs_ops, loads>>

\* The file is loaded again in the same process, in a fresh namespace; the
\* manifest may have changed on disk in the meantime.
Reload ==
  /\ pc \in {"done", "failed"}
  /\ loads < MaxLoads
  /\ loads' = loads + 1
  /\ prev' = ns
  /\ ns' = EmptyNamespace
  /\ manifest' \in Manifests
  /\ handle' = "none"
  /\ exc' = "none"
  /\ doc' = Unbound
  /\ fs_ops' = <<>>
  /\ pc' = "l8"
  /\ UNCHANGED <<sys_path, cwd, path0>>

Next ==
  \/ SysPathInsert
  \/ ProjectInformation
  \/ ImportJson
  \/ OpenManifest
  \/ JsonLoad
  \/ GetVersion
  \/ WithExit
  \/ ExceptHandler
  \/ GeneralConfiguration
  \/ HtmlOutput
  \/ ExtensionConfiguration
  \/ Reload

Spec == Init /\ [][Next]_vars

\* A started load is run to its end: every statement of the file is taken.
FairSpec == Spec /\ WF_vars(Next)

-----------------------------------------------------------------------------
(* Properties of the load.                                                 *)

\* C1: when the manifest is readable, parses as JSON and its top-level
\* object has a version field, release is exactly the Python value of that
\* field (of the last one if the text repeats the key), whatever its type,
\* once the try block is left.
ReleaseIsManifestVersion ==
  \A i \in 1..Len(manifest.doc.members) :
    ( /\ pc \in {"l25", "l50", "l65", "done"}
      /\ manifest.state = "json"
      /\ manifest.doc.j = "object"
      /\ manifest.doc.members[i][1] = "version"
      /\ \A k \in (i + 1)..Len(manifest.doc.members) :
            manifest.doc.members[k][1] /= "version" )
    => ns["release"] = FromJson(manifest.doc.members[i][2])

\* A finished load whose manifest carries "version": null.
VersionNullLoaded ==
  /\ pc = "done"
  /\ manifest = File("json", JObject(<< <<"version", JNull>> >>))
  /\ ns["release"] = None

\* C2: when the manifest is missing, cannot be opened or read, or does not
\* parse as JSON, release is the string "1.0.0" once the try block is left.
UnreadableManifestGivesFallback ==
  ( /\ pc \in {"l25", "l50", "l65", "done"}
    /\ manifest.state \in {"absent", "denied", "ioerror", "undecodable", "malformed"} )
  => ns["release"] = Str("1.0.0")

\* A finished load whose manifest is not JSON.
MalformedManifestLoaded ==
  /\ pc = "done"
  /\ manifest.state = "malformed"
  /\ handle = "closed"
  /\ ns["release"] = Str("1.0.0")

\* C3: when the manifest parses to an object without a version field,
\* release is the string "1.0.0" once the try block is left.
MissingVersionGivesDefault ==
  ( /\ pc \in {"l25", "l50", "l65", "done"}
    /\ manifest.state = "json"
    /\ manifest.doc.j = "object"
    /\ \A i \in 1..Len(manifest.doc.members) :
          manifest.doc.members[i][1] /= "version" )
  => ns["release"] = Str("1.0.0")

\* A finished load whose manifest is an object with a name and no version.
NameOnlyManifestLoaded ==
  /\ pc = "done"
  /\ manifest = File("json", JObject(<< <<"name", JString("typescript-tutor")>> >>))
  /\ exc = "none"
  /\ ns["release"] = Str("1.0.0")

\* C4: no outcome of opening, reading and parsing the manifest ends the
\* load: the load never fails, no exception is in flight and release is
\* bound once the try block is left, and every load that starts reaches the
\* end of the file.
ManifestNeverFailsLoad ==
  /\ [](/\ pc /= "failed"
        /\ pc \in {"l25", "l50", "l65", "done"}
             => (exc = "none" /\ ns["release"] /= Unbound))
  /\ \A n \in 1..(MaxLoads + 1) :
       (pc = "l8" /\ loads = n) ~> (pc = "done" /\ loads = n)

\* A load that caught an exception of the manifest read and ran to the end.
CaughtAndFinished ==
  /\ pc = "done"
  /\ manifest.state \in {"absent", "ioerror", "malformed"}
  /\ exc = "none"
  /\ ns["release"] /= Unbound
  /\ ns["myst_heading_anchors"] /= Unbound

\* C5: in every state of every load, whatever the manifest, extensions,
\* html_theme_options, autodoc_default_options, the autodoc, autosummary and
\* napoleon settings and the myst settings are either not assigned yet or
\* exactly their declared literals; a finished load has them all, and a
\* second load has the values of the first.
StaticSettingsAreDeclaredLiterals ==
  LET declared ==
        [ extensions |->
            List(<< Str("sphinx.ext.autodoc"), Str("sphinx.ext.autosummary"),
                    Str("sphinx.ext.napoleon"), Str("sphinx.ext.viewcode"),
                    Str("sphinx.ext.intersphinx"),
                    Str("sphinx_autodoc_typehints"), Str("myst_parser") >>),
          html_theme_options |->
            Dict(<< <<"navigation_depth", Int(4)>>,
                    <<"collapse_navigation", Bool(FALSE)>>,
                    <<"sticky_navigation", Bool(TRUE)>>,
                    <<"includehidden", Bool(TRUE)>>,
                    <<"titles_only", Bool(FALSE)>> >>),
          autodoc_default_options |->
            Dict(<< <<"members", Bool(TRUE)>>,
                    <<"member-order", Str("bysource")>>,
                    <<"special-members", Str("__init__")>>,
                    <<"undoc-members", Bool(TRUE)>>,
                    <<"exclude-members", Str("__weakref__")>>,
                    <<"show-inheritance", Bool(TRUE)>> >>),
          autodoc_typehints |-> Str("description"),
          autodoc_class_signature |-> Str("separated"),
          autosummary_generate |-> Bool(TRUE),
          napoleon_google_docstring |-> Bool(TRUE),
          napoleon_numpy_docstring |-> Bool(TRUE),
          napoleon_include_init_with_doc |-> Bool(TRUE),
          napoleon_use_param |-> Bool(TRUE),
          napoleon_use_rtype |-> Bool(TRUE),
          myst_enable_extensions |->
            List(<< Str("colon_fence"), Str("deflist"), Str("fieldlist"),
                    Str("tasklist") >>),
          myst_heading_anchors |-> Int(3) ]
  IN \A name \in DOMAIN declared :
       /\ ns[name] \in {Unbound, declared[name]}
       /\ pc = "done" => ns[name] = declared[name]
       /\ (pc = "done" /\ loads >= 2) => ns[name] = prev[name]

\* A second load, finished on another manifest than the first, with the
\* seven extensions in their order.
SecondLoadSameSettings ==
  /\ pc = "done"
  /\ loads = 2
  /\ prev["release"] /= ns["release"]
  /\ Len(ns["extensions"].elems) = 7
  /\ ns["extensions"].elems[7] = Str("myst_parser")
  /\ prev["extensions"] = ns["extensions"]

\* C6: after every load release is a string.
ReleaseIsString ==
  pc = "done" => ns["release"].type = "str"

\* C7: a load opens one file once, the manifest ../package.json, read-only;
\* every file-system call of the load is on that file in mode "r".
OnlyManifestOpenedReadOnly ==
  /\ \A i \in 1..Len(fs_ops) :
        fs_ops[i].path = "../package.json" /\ fs_ops[i].mode = "r"
  /\ Cardinality({i \in 1..Len(fs_ops) : fs_ops[i].op = "open"})
       = IF pc \in {"l8", "l11", "l17", "l18"} THEN 0 ELSE 1

\* A finished load that opened the manifest and read it.
ManifestOpenedAndRead ==
  /\ pc = "done"
  /\ Len(fs_ops) = 2
  /\ fs_ops[1].op = "open"
  /\ fs_ops[2].op = "read"

\* C8: when the manifest parses to a JSON value that is not an object, the
\* lookup raises AttributeError, the handler catches it and release is
\* "1.0.0"; and the file object of the load is never open once the try
\* block is left.
NonObjectGivesFallbackAndFileClosed ==
  /\ ( /\ pc = "with_exit"
       /\ manifest.state = "json"
       /\ manifest.doc.j /= "object" ) => exc = "AttributeError"
  /\ ( /\ pc \in {"l25", "l50", "l65", "done"}
       /\ manifest.state = "json"
       /\ manifest.doc.j /= "object" )
       => (exc = "none" /\ ns["release"] = Str("1.0.0"))
  /\ pc \in {"l20", "l25", "l50", "l65", "done"} => handle /= "open"
  /\ ( /\ pc \in {"l25", "l50", "l65", "done"}
       /\ manifest.state \notin {"absent", "denied"} ) => handle = "closed"

\* A finished load whose manifest is a JSON array.
ArrayManifestLoaded ==
  /\ pc = "done"
  /\ manifest = File("json", JArray(<<JString("version")>>))
  /\ handle = "closed"
  /\ ns["release"] = Str("1.0.0")

\* C9: two loads that differ in the manifest agree on every configuration
\* value other than release, and html_title is the project name followed by
\* " Documentation".
ManifestInfluencesOnlyRelease ==
  /\ (pc = "done" /\ loads >= 2)
       => \A name \in Names \ {"release"} : ns[name] = prev[name]
  /\ pc = "done"
       => /\ ns["html_title"] = Str("Strata TypeScript Tutor Documentation")
          /\ ns["project"] = Str("Strata TypeScript Tutor")
          /\ ns["author"] = Str("Jon Bogaty")
          /\ ns["copyright"] = Str("2025, Jon Bogaty")

\* Two finished loads whose manifests gave different releases.
TwoLoadsDifferentRelease ==
  /\ pc = "done"
  /\ loads = 2
  /\ prev["release"] = Str("2.3.4")
  /\ ns["release"] = Int(7)
  /\ prev["html_title"] /= Unbound

\* C10: each load inserts the absolute path of ../src at the front of
\* sys.path and changes the path in no other way: after n loads the path is
\* n copies of that entry followed by the entries it had at the start, in
\* their order.
SysPathGrowsByOnePerLoad ==
  LET entry == IF cwd = <<>> THEN <<"src">>
               ELSE SubSeq(cwd, 1, Len(cwd) - 1) \o <<"src">>
      k == IF pc = "l8" THEN loads - 1 ELSE loads
  IN /\ Len(sys_path) = Len(path0) + k
     /\ \A i \in 1..k : sys_path[i] = entry
     /\ \A i \in 1..Len(path0) : sys_path[k + i] = path0[i]

\* Two loads in a process whose path held the entry from the start.
TwoCopiesAtFront ==
  /\ pc = "done"
  /\ loads = 2
  /\ cwd = <<"repo", "docs">>
  /\ path0 = << <<"repo", "src">>, <<"usr", "lib", "python3">> >>
  /\ sys_path = << <<"repo", "src">>, <<"repo", "src">> >> \o path0

====
